---- MODULE Spec2Model ----
(***************************************************************************)
(* Model of amg::level::cpu<value_t, index_t> (src/amgcl/cpu_level.hpp):   *)
(* the damped-Jacobi smoother relax(), the commit helper vector_copy() and *)
(* the recursive multigrid cycle().                                        *)
(*                                                                         *)
(* value_t is modelled as the prime field Z_Modulus.  The values the code  *)
(* computes from integer inputs lie in the ring Z[1/25, 1/diag], which     *)
(* maps homomorphically into Z_Modulus as long as no divisor is 0 there,   *)
(* so every equality of the exact arithmetic is an equality of the model.  *)
(* Floating-point rounding is not modelled.  Vectors and the compressed-   *)
(* row arrays keep the code's 0-based indexing: they are functions on      *)
(* 0..n-1.                                                                 *)
(***************************************************************************)
EXTENDS Integers, Sequences, FiniteSets, TLC

---------------------------------------------------------------------------
(* Bounds of the checked instances *)

MaxDepth == 3

MaxNcycle == 2

MaxSweeps == 2

---------------------------------------------------------------------------
(* value_t arithmetic *)

Modulus == 10007

\* Content of a scratch element that no step of the current call has written
\* (left over from an earlier solve); every operation on it yields it again.
Poison == 0 - 1

Val(k) == ((k % Modulus) + Modulus) % Modulus

VAdd(a, b) == IF a = Poison \/ b = Poison THEN Poison ELSE (a + b) % Modulus

VSub(a, b) == IF a = Poison \/ b = Poison THEN Poison ELSE (a + Modulus - b) % Modulus

VMul(a, b) == IF a = Poison \/ b = Poison THEN Poison ELSE (a * b) % Modulus

\* 1/a: the quotient (m * Modulus + 1) / a for the m that makes it whole
VInv(a) ==
    LET m == CHOOSE m \in 0..(a - 1) : (m * Modulus + 1) % a = 0
    IN  (m * Modulus + 1) \div a

VDiv(a, b) == IF a = Poison \/ b = Poison THEN Poison ELSE (a * VInv(b)) % Modulus

\* the literal 0.72 = 18/25
Omega == VDiv(18, 25)

---------------------------------------------------------------------------
(* sparse::matrix: rows, row (offsets), col, val *)

EmptyMat == [rows |-> 0, row |-> [i \in {0} |-> 0], col |-> <<>>, val |-> <<>>]

RECURSIVE Flatten(_)
Flatten(ss) == IF ss = <<>> THEN <<>> ELSE Head(ss) \o Flatten(Tail(ss))

RECURSIVE Offset(_, _)
Offset(ss, i) == IF i = 0 THEN 0 ELSE Offset(ss, i - 1) + Len(ss[i])

\* The matrix whose row i holds, in this order, the <<column, value>> pairs
\* of rowList[i + 1].
Csr(rowList) ==
    LET flat == Flatten(rowList)
    IN  [rows |-> Len(rowList),
         row  |-> [i \in 0..Len(rowList) |-> Offset(rowList, i)],
         col  |-> [j \in 0..(Len(flat) - 1) |-> flat[j + 1][1]],
         val  |-> [j \in 0..(Len(flat) - 1) |-> Val(flat[j + 1][2])]]

Min(a, b) == IF a < b THEN a ELSE b

Zeros(n) == [i \in 0..(n - 1) |-> 0]

---------------------------------------------------------------------------
(* The hierarchies handed to cycle: built by the external hierarchy builder *)
(* through the two constructors.  Three families, each of any depth d:      *)
(*   "agg"    level sizes 3, 2, 1, 1, ...; tridiagonal A; P aggregates;     *)
(*            the finest level is built with has_parent = false             *)
(*   "ident"  every level of size 2; P and R identity maps; Ai is the true  *)
(*            inverse of A                                                  *)
(*   "nodiag" as "agg", columns stored in decreasing order and row 0 of     *)
(*            every A without a diagonal entry                              *)

Kinds == {"agg", "ident", "nodiag"}

Size(kind, k) == IF kind = "ident" THEN 2 ELSE IF k = 1 THEN 3 ELSE IF k = 2 THEN 2 ELSE 1

ARow(kind, n, i) ==
    LET lo == IF i > 0 THEN << <<i - 1, 0 - 1>> >> ELSE <<>>
        hi == IF i < n - 1 THEN << <<i + 1, 0 - 1>> >> ELSE <<>>
    IN  IF kind = "nodiag"
        THEN hi \o (IF i = 0 THEN <<>> ELSE << <<i, 3>> >>) \o lo
        ELSE lo \o << <<i, 2>> >> \o hi

AMat(kind, n) == Csr([r \in 1..n |-> ARow(kind, n, r - 1)])

PMat(kind, n, nc) ==
    Csr([r \in 1..n |-> IF kind = "ident" THEN << <<r - 1, 1>> >>
                        ELSE << <<Min(r - 1, nc - 1), r>> >>])

RMat(kind, nc, n) ==
    Csr([r \in 1..nc |->
            LET Mine(e) == IF kind = "ident" THEN e[1] = r - 1
                           ELSE Min(e[1], nc - 1) = r - 1
            IN  SelectSeq([c \in 1..n |-> <<c - 1, 1>>], Mine)])

AiMat(kind, n) ==
    Csr([r \in 1..n |-> [c \in 1..n |->
            IF kind = "ident"
            THEN <<c - 1, VDiv(IF r = c THEN 2 ELSE 1, 3)>>
            ELSE <<c - 1, VDiv((r - 1) + 2 * (c - 1) + 1, 2)>>]])

\* cpu(matrix &&a, matrix &&p, matrix &&r, bool has_parent)
cpu(a, p, r, has_parent) ==
    [A |-> a, P |-> p, R |-> r, Ai |-> EmptyMat,
     u |-> IF has_parent THEN Zeros(a.rows) ELSE <<>>,
     f |-> IF has_parent THEN Zeros(a.rows) ELSE <<>>,
     t |-> Zeros(a.rows)]

\* cpu(matrix &&a, matrix &&ai)
cpuCoarsest(a, ai) ==
    [A |-> a, P |-> EmptyMat, R |-> EmptyMat, Ai |-> ai,
     u |-> Zeros(a.rows), f |-> Zeros(a.rows), t |-> Zeros(a.rows)]

Hierarchy(kind, d) ==
    [k \in 1..d |->
        IF k < d
        THEN cpu(AMat(kind, Size(kind, k)),
                 PMat(kind, Size(kind, k), Size(kind, k + 1)),
                 RMat(kind, Size(kind, k + 1), Size(kind, k)),
                 k > 1 \/ kind = "ident")
        ELSE cpuCoarsest(AMat(kind, Size(kind, k)), AiMat(kind, Size(kind, k)))]

\* The scratch vectors as an earlier solve may have left them.
Leftover(lv) ==
    [lv EXCEPT !.u = [i \in DOMAIN lv.u |-> Poison],
               !.f = [i \in DOMAIN lv.f |-> Poison],
               !.t = [i \in DOMAIN lv.t |-> Poison]]

RhsChoices(n) == {[i \in 0..(n - 1) |-> Val(i + 1)], [i \in 0..(n - 1) |-> Val(5 - 4 * i)]}

XChoices(n) == {Zeros(n), [i \in 0..(n - 1) |-> Val(3 - 2 * i)]}

---------------------------------------------------------------------------
(* The per-row kernels *)

\* A relax loop that leaves the diagonal term out of temp.
RECURSIVE RelaxRowLoopOffDiagonal(_, _, _, _, _, _, _)
RelaxRowLoopOffDiagonal(A, x, i, j, e, temp, diag) ==
    IF j < e
    THEN LET c == A.col[j]
             v == A.val[j]
         IN  RelaxRowLoopOffDiagonal(A, x, i, j + 1, e,
                                     IF c = i THEN temp ELSE VSub(temp, VMul(v, x[c])),
                                     IF c = i THEN v ELSE diag)
    ELSE <<temp, diag>>

\* relax: the loop over the stored entries of row i; yields <<temp, diag>>
RECURSIVE RelaxRowLoop(_, _, _, _, _, _, _)
RelaxRowLoop(A, x, i, j, e, temp, diag) ==
    IF j < e
    THEN LET c == A.col[j]
             v == A.val[j]
         IN  RelaxRowLoop(A, x, i, j + 1, e, VSub(temp, VMul(v, x[c])),
                          IF c = i THEN v ELSE diag)
    ELSE <<temp, diag>>

\* relax: the value stored into t[i]
RelaxRowValue(A, rhs, x, i) ==
    LET td == RelaxRowLoop(A, x, i, A.row[i], A.row[i + 1], rhs[i], 1)
    IN  VAdd(x[i], VMul(Omega, VDiv(td[1], td[2])))

\* A relax iteration that updates x in place (Gauss-Seidel).
RelaxIterationInPlace(A, rhs, x, t, i) ==
    [x |-> [x EXCEPT ![i] = RelaxRowValue(A, rhs, x, i)],
     t |-> [t EXCEPT ![i] = RelaxRowValue(A, rhs, x, i)]]

\* relax: one iteration of the parallel loop; x is only read, t[i] is written
RelaxIteration(A, rhs, x, t, i) ==
    [x |-> x, t |-> [t EXCEPT ![i] = RelaxRowValue(A, rhs, x, i)]]

\* vector_copy(u, v): swap when both have the same type, element-wise copy of
\* all of u to the front of v otherwise
vector_copy(u, v, same) ==
    IF same
    THEN [u |-> v, v |-> u]
    ELSE [u |-> u, v |-> [i \in DOMAIN v |-> IF i \in DOMAIN u THEN u[i] ELSE v[i]]]

\* temp -= M.val[j] * v[M.col[j]] over the stored entries j..e-1
RECURSIVE SubLoop(_, _, _, _, _)
SubLoop(M, v, j, e, temp) ==
    IF j < e THEN SubLoop(M, v, j + 1, e, VSub(temp, VMul(M.val[j], v[M.col[j]])))
    ELSE temp

\* temp += M.val[j] * v[M.col[j]] over the stored entries j..e-1
RECURSIVE AddLoop(_, _, _, _, _)
AddLoop(M, v, j, e, temp) ==
    IF j < e THEN AddLoop(M, v, j + 1, e, VAdd(temp, VMul(M.val[j], v[M.col[j]])))
    ELSE temp

\* cycle: lvl->t = rhs - lvl->A * x
Residual(A, rhs, x, n) ==
    [i \in 0..(n - 1) |-> SubLoop(A, x, A.row[i], A.row[i + 1], rhs[i])]

\* cycle: nxt->f = lvl->R * lvl->t
Restriction(R, t, nc) ==
    [i \in 0..(nc - 1) |-> AddLoop(R, t, R.row[i], R.row[i + 1], 0)]

\* A fill that leaves u as the previous descent left it.
FillNothing(u) == u

\* cycle: std::fill(nxt->u.begin(), nxt->u.end(), 0)
Fill(u) == [i \in DOMAIN u |-> 0]

\* A prolongation that assigns the correction instead of adding it.
ProlongationAssigned(P, u, x, n) ==
    [i \in DOMAIN x |->
        IF i \in 0..(n - 1) THEN AddLoop(P, u, P.row[i], P.row[i + 1], 0)
        ELSE x[i]]

\* cycle: x += lvl->P * nxt->u
Prolongation(P, u, x, n) ==
    [i \in DOMAIN x |->
        IF i \in 0..(n - 1) THEN VAdd(x[i], AddLoop(P, u, P.row[i], P.row[i + 1], 0))
        ELSE x[i]]

\* A direct solve that accumulates into x instead of overwriting it.
DirectSolveAccumulated(Ai, rhs, x, n) ==
    [i \in DOMAIN x |->
        IF i \in 0..(n - 1) THEN VAdd(x[i], AddLoop(Ai, rhs, Ai.row[i], Ai.row[i + 1], 0))
        ELSE x[i]]

\* cycle, coarsest level: x[i] = sum of Ai.val[j] * rhs[Ai.col[j]], i ascending
DirectSolve(Ai, rhs, x, n) ==
    [i \in DOMAIN x |->
        IF i \in 0..(n - 1) THEN AddLoop(Ai, rhs, Ai.row[i], Ai.row[i + 1], 0)
        ELSE x[i]]

---------------------------------------------------------------------------
(* State *)

VARIABLES
    levels,     \* the level sequence lvl..end-1: [A, P, R, Ai, u, f, t] each
    rhs, x,     \* the finest-level vectors the outer driver passes to cycle
    same,       \* whether the driver's vector2 is std::vector<value_t>
    prm,        \* amg::params: ncycle, npre, npost
    stack,      \* activation records of cycle, outermost first
    rowsDone,   \* rows of the running relax loop already computed
    written,    \* scratch elements stored to since the outer call began
    xOld,       \* x as it was when the running / last relax sweep began
    count,      \* executions of each step since the outer call began
    last,       \* the step taken last: [op, lvl]
    input       \* the arguments of the outer call: [kind, dirty, x0]

vars == <<levels, rhs, x, same, prm, stack, rowsDone, written, xOld, count, last, input>>

Depth == Len(levels)

\* Iterator end: one past the last level
End == Depth + 1

\* An iterator nxt that is not advanced.
NxtNotAdvanced(k) == k

\* Iterator nxt = lvl; ++nxt;
Nxt(k) == k + 1

\* A loop over j that runs once too often.
CycleGuardInclusive(j, p) == j <= p.ncycle

\* for(unsigned j = 0; j < prm.ncycle; ++j)
CycleGuard(j, p) == j < p.ncycle

\* A pre-smoothing loop bounded by npost.
PreGuardByNpost(i, p) == i < p.npost

\* for(unsigned i = 0; i < prm.npre; ++i)
PreGuard(i, p) == i < p.npre

\* for(unsigned i = 0; i < prm.npost; ++i)
PostGuard(i, p) == i < p.npost

Top == stack[Len(stack)]

\* The rhs and x arguments of the activation on level k: the driver's vectors
\* on the finest level, nxt->f and nxt->u below it.
RhsOf(lv, r, k) == IF k = 1 THEN r ELSE lv[k].f

XOf(lv, xv, k) == IF k = 1 THEN xv ELSE lv[k].u

SameOf(k) == IF k = 1 THEN same ELSE TRUE

Frame(k) == [lvl |-> k, pc |-> "enter", j |-> 0, i |-> 0, after |-> "pre",
             log |-> <<>>, xPre |-> <<>>]

SetTop(f) == [stack EXCEPT ![Len(stack)] = f]

Rows(k) == 0..(levels[k].A.rows - 1)

\* The state in which the driver has called cycle(lvl, end, prm, rhs, x) on a
\* hierarchy of family kind and depth d, whose scratch vectors are as built
\* (dirty = FALSE) or as an earlier solve left them.
Begin(kind, d, dirty, nc, np, nq) ==
        /\ levels = [k \in 1..d |-> IF dirty THEN Leftover(Hierarchy(kind, d)[k])
                                    ELSE Hierarchy(kind, d)[k]]
        /\ rhs \in RhsChoices(Size(kind, 1))
        /\ x \in XChoices(Size(kind, 1))
        /\ same \in BOOLEAN
        /\ prm = [ncycle |-> nc, npre |-> np, npost |-> nq]
        /\ stack = <<Frame(1)>>
        /\ rowsDone = {}
        /\ written = [k \in 1..d |-> [u |-> {}, f |-> {}, t |-> {}]]
        /\ xOld = x
        /\ count = [enter |-> [k \in 1..d |-> 0], restrict |-> 0, prolong |-> 0,
                    solve |-> 0, relax |-> 0]
        /\ last = [op |-> "Call", lvl |-> 1]
        /\ input = [kind |-> kind, dirty |-> dirty, x0 |-> x]

Init ==
    \E kind \in Kinds, d \in 1..MaxDepth, dirty \in BOOLEAN,
       nc \in 0..MaxNcycle, np \in 0..MaxSweeps, nq \in 0..MaxSweeps :
        Begin(kind, d, dirty, nc, np, nq)

\* The same calls for one rhs and one x (a std::vector) per hierarchy, the
\* scratch vectors left over: control flow does not depend on the values.
InitOneInput ==
    \E kind \in Kinds, d \in 1..MaxDepth,
       nc \in 0..MaxNcycle, np \in 0..MaxSweeps, nq \in 0..MaxSweeps :
        /\ Begin(kind, d, TRUE, nc, np, nq)
        /\ same
        /\ x = [i \in 0..(Size(kind, 1) - 1) |-> Val(3 - 2 * i)]
        /\ rhs = [i \in 0..(Size(kind, 1) - 1) |-> Val(i + 1)]

---------------------------------------------------------------------------
(* Steps of cycle(lvl, end, prm, rhs, x); k is the level lvl points to.    *)
(* The parallel loop of relax is taken row by row in any order (every row   *)
(* its own chunk of the dynamic schedule).  The other parallel loops read   *)
(* only vectors they do not write, apart from each row's own x[i] in the    *)
(* prolongation, and are taken as one step each.                            *)

PutX(lv, k, v) == IF k = 1 THEN lv ELSE [lv EXCEPT ![k].u = v]

Mark(w, k, v, set) == [w EXCEPT ![k][v] = @ \cup set]

Log(f, e) == Append(f.log, e)

\* n = lvl->A.rows; nxt = lvl + 1; if (nxt != end)
Enter ==
    /\ stack # <<>> /\ Top.pc = "enter"
    /\ stack' = SetTop([Top EXCEPT !.pc = IF Nxt(Top.lvl) # End THEN "rep" ELSE "solve"])
    /\ count' = [count EXCEPT !.enter[Top.lvl] = @ + 1]
    /\ last' = [op |-> "Enter", lvl |-> Top.lvl]
    /\ UNCHANGED <<levels, rhs, x, same, prm, rowsDone, written, xOld, input>>

\* head of the loop over j
RepHead ==
    /\ stack # <<>> /\ Top.pc = "rep"
    /\ stack' = SetTop(IF CycleGuard(Top.j, prm)
                       THEN [Top EXCEPT !.pc = "pre", !.i = 0]
                       ELSE [Top EXCEPT !.pc = "ret"])
    /\ last' = [op |-> "RepHead", lvl |-> Top.lvl]
    /\ UNCHANGED <<levels, rhs, x, same, prm, rowsDone, written, xOld, count, input>>

\* head of the pre-smoothing loop: call lvl->relax(rhs, x) or go on to the residual
PreHead ==
    /\ stack # <<>> /\ Top.pc = "pre"
    /\ LET k == Top.lvl IN
       IF PreGuard(Top.i, prm)
       THEN /\ stack' = SetTop([Top EXCEPT !.pc = "relax", !.after = "pre",
                                           !.log = Log(Top, "relax")])
            /\ xOld' = XOf(levels, x, k)
            /\ rowsDone' = {}
       ELSE /\ stack' = SetTop([Top EXCEPT !.pc = "resid", !.xPre = XOf(levels, x, k)])
            /\ UNCHANGED <<xOld, rowsDone>>
    /\ last' = [op |-> "PreHead", lvl |-> Top.lvl]
    /\ UNCHANGED <<levels, rhs, x, same, prm, written, count, input>>

\* relax: one iteration i = r of the parallel loop, in any order
RelaxRow(r) ==
    /\ stack # <<>> /\ Top.pc = "relax"
    /\ r \in Rows(Top.lvl) \ rowsDone
    /\ LET k  == Top.lvl
           it == RelaxIteration(levels[k].A, RhsOf(levels, rhs, k), XOf(levels, x, k),
                                levels[k].t, r)
       IN  /\ levels' = PutX([levels EXCEPT ![k].t = it.t], k, it.x)
           /\ x' = IF k = 1 THEN it.x ELSE x
           /\ written' = Mark(written, k, "t", {r})
           /\ last' = [op |-> "RelaxRow", lvl |-> k]
    /\ rowsDone' = rowsDone \cup {r}
    /\ UNCHANGED <<rhs, same, prm, stack, xOld, count, input>>

\* relax: vector_copy(t, x) once the loop is over; back to the calling loop, ++i
RelaxCommit ==
    /\ stack # <<>> /\ Top.pc = "relax"
    /\ rowsDone = Rows(Top.lvl)
    /\ LET k  == Top.lvl
           vc == vector_copy(levels[k].t, XOf(levels, x, k), SameOf(k))
       IN  /\ levels' = PutX([levels EXCEPT ![k].t = vc.u], k, vc.v)
           /\ x' = IF k = 1 THEN vc.v ELSE x
           /\ written' =
                IF ~SameOf(k) THEN written
                ELSE IF k = 1 THEN Mark(written, k, "t", DOMAIN x)
                ELSE [written EXCEPT ![k].t = written[k].u, ![k].u = written[k].t]
           /\ last' = [op |-> "RelaxCommit", lvl |-> k]
    /\ stack' = SetTop([Top EXCEPT !.pc = Top.after, !.i = @ + 1])
    /\ rowsDone' = {}
    /\ count' = [count EXCEPT !.relax = @ + 1]
    /\ UNCHANGED <<rhs, same, prm, xOld, input>>

\* lvl->t = rhs - lvl->A * x
ResidualStep ==
    /\ stack # <<>> /\ Top.pc = "resid"
    /\ LET k == Top.lvl IN
        /\ levels' = [levels EXCEPT ![k].t =
                        Residual(levels[k].A, RhsOf(levels, rhs, k), XOf(levels, x, k),
                                 levels[k].A.rows)]
        /\ written' = Mark(written, k, "t", Rows(k))
        /\ last' = [op |-> "Residual", lvl |-> k]
    /\ stack' = SetTop([Top EXCEPT !.pc = "restrict", !.log = Log(Top, "residual")])
    /\ UNCHANGED <<rhs, x, same, prm, rowsDone, xOld, count, input>>

\* A restriction stored into the level's own f.
RestrictIntoOwn(lv, k) ==
    [lv EXCEPT ![k].f = Restriction(lv[k].R, lv[k].t, lv[Nxt(k)].A.rows)]

\* the levels after nxt->f = lvl->R * lvl->t
Restrict(lv, k) ==
    [lv EXCEPT ![Nxt(k)].f = Restriction(lv[k].R, lv[k].t, lv[Nxt(k)].A.rows)]

RestrictStep ==
    /\ stack # <<>> /\ Top.pc = "restrict"
    /\ LET k == Top.lvl IN
        /\ levels' = Restrict(levels, k)
        /\ written' = Mark(written, Nxt(k), "f", Rows(Nxt(k)))
        /\ last' = [op |-> "Restrict", lvl |-> k]
    /\ stack' = SetTop([Top EXCEPT !.pc = "zero", !.log = Log(Top, "restrict")])
    /\ count' = [count EXCEPT !.restrict = @ + 1]
    /\ UNCHANGED <<rhs, x, same, prm, rowsDone, xOld, input>>

\* std::fill(nxt->u.begin(), nxt->u.end(), 0)
ZeroStep ==
    /\ stack # <<>> /\ Top.pc = "zero"
    /\ LET k == Top.lvl IN
        /\ levels' = [levels EXCEPT ![Nxt(k)].u = Fill(levels[Nxt(k)].u)]
        /\ written' = Mark(written, Nxt(k), "u", DOMAIN levels[Nxt(k)].u)
        /\ last' = [op |-> "Zero", lvl |-> k]
    /\ stack' = SetTop([Top EXCEPT !.pc = "call", !.log = Log(Top, "zero")])
    /\ UNCHANGED <<rhs, x, same, prm, rowsDone, xOld, count, input>>

\* cycle(nxt, end, prm, nxt->f, nxt->u)
Call ==
    /\ stack # <<>> /\ Top.pc = "call"
    /\ stack' = Append(SetTop([Top EXCEPT !.pc = "prolong", !.log = Log(Top, "cycle")]),
                       Frame(Nxt(Top.lvl)))
    /\ last' = [op |-> "Call", lvl |-> Nxt(Top.lvl)]
    /\ UNCHANGED <<levels, rhs, x, same, prm, rowsDone, written, xOld, count, input>>

\* x += lvl->P * nxt->u
ProlongStep ==
    /\ stack # <<>> /\ Top.pc = "prolong"
    /\ LET k  == Top.lvl
           nx == Prolongation(levels[k].P, levels[Nxt(k)].u, XOf(levels, x, k),
                              levels[k].A.rows)
       IN  /\ levels' = PutX(levels, k, nx)
           /\ x' = IF k = 1 THEN nx ELSE x
           /\ written' = IF k = 1 THEN written ELSE Mark(written, k, "u", Rows(k))
           /\ last' = [op |-> "Prolong", lvl |-> k]
    /\ stack' = SetTop([Top EXCEPT !.pc = "post", !.i = 0, !.log = Log(Top, "prolong")])
    /\ count' = [count EXCEPT !.prolong = @ + 1]
    /\ UNCHANGED <<rhs, same, prm, rowsDone, xOld, input>>

\* head of the post-smoothing loop: call lvl->relax(rhs, x) or end the repetition, ++j
PostHead ==
    /\ stack # <<>> /\ Top.pc = "post"
    /\ LET k == Top.lvl IN
       IF PostGuard(Top.i, prm)
       THEN /\ stack' = SetTop([Top EXCEPT !.pc = "relax", !.after = "post",
                                           !.log = Log(Top, "relax")])
            /\ xOld' = XOf(levels, x, k)
            /\ rowsDone' = {}
       ELSE /\ stack' = SetTop([Top EXCEPT !.pc = "rep", !.j = @ + 1])
            /\ UNCHANGED <<xOld, rowsDone>>
    /\ last' = [op |-> "PostHead", lvl |-> Top.lvl]
    /\ UNCHANGED <<levels, rhs, x, same, prm, written, count, input>>

\* coarsest level: x = Ai * rhs
SolveStep ==
    /\ stack # <<>> /\ Top.pc = "solve"
    /\ LET k  == Top.lvl
           nx == DirectSolve(levels[k].Ai, RhsOf(levels, rhs, k), XOf(levels, x, k),
                             levels[k].A.rows)
       IN  /\ levels' = PutX(levels, k, nx)
           /\ x' = IF k = 1 THEN nx ELSE x
           /\ written' = IF k = 1 THEN written ELSE Mark(written, k, "u", Rows(k))
           /\ last' = [op |-> "Solve", lvl |-> k]
    /\ stack' = SetTop([Top EXCEPT !.pc = "ret", !.log = Log(Top, "solve")])
    /\ count' = [count EXCEPT !.solve = @ + 1]
    /\ UNCHANGED <<rhs, same, prm, rowsDone, xOld, input>>

\* the activation returns to its caller
Return ==
    /\ stack # <<>> /\ Top.pc = "ret"
    /\ stack' = SubSeq(stack, 1, Len(stack) - 1)
    /\ last' = [op |-> "Return", lvl |-> Top.lvl]
    /\ UNCHANGED <<levels, rhs, x, same, prm, rowsDone, written, xOld, count, input>>

Next ==
    \/ Enter
    \/ RepHead
    \/ PreHead
    \/ \E r \in UNION {DOMAIN levels[k].t : k \in DOMAIN levels} : RelaxRow(r)
    \/ RelaxCommit
    \/ ResidualStep
    \/ RestrictStep
    \/ ZeroStep
    \/ Call
    \/ ProlongStep
    \/ PostHead
    \/ SolveStep
    \/ Return

Spec == Init /\ [][Next]_vars

\* The driver's thread runs cycle to its end and the workers of a parallel
\* loop all make progress.
FairSpec == InitOneInput /\ [][Next]_vars /\ WF_vars(Next)

Finished == stack = <<>>

---------------------------------------------------------------------------
(* Reference notions the properties are stated with: the matrix a           *)
(* compressed-row structure stands for, and products with it.               *)

RECURSIVE SetSum(_, _)
SetSum(S, g) ==
    IF S = {} THEN 0
    ELSE LET c == CHOOSE c \in S : TRUE
         IN  VAdd(g[c], SetSum(S \ {c}, g))

Entries(M, i) == M.row[i]..(M.row[i + 1] - 1)

Columns(M, i) == {M.col[j] : j \in Entries(M, i)}

\* the entry M[i, c]: the stored values of row i in column c, summed
At(M, i, c) ==
    LET js == {j \in Entries(M, i) : M.col[j] = c}
    IN  SetSum(js, [j \in js |-> M.val[j]])

\* sum of M[i, c] * v[c] over the columns c in cols
Dot(M, i, v, cols) == SetSum(cols, [c \in cols |-> VMul(At(M, i, c), v[c])])

\* M * v
Times(M, v) == [i \in 0..(M.rows - 1) |-> Dot(M, i, v, Columns(M, i))]

Plus(v, w) == [i \in DOMAIN v |-> VAdd(v[i], w[i])]

HasDiagonal(A, i) == i \in Columns(A, i)

MissingDiagonal(A) == \E i \in 0..(A.rows - 1) : ~HasDiagonal(A, i)

IsIdentity(M) ==
    \A i \in 0..(M.rows - 1) : Columns(M, i) = {i} /\ At(M, i, i) = 1

NoPoison(v) == \A i \in DOMAIN v : v[i] # Poison

Lvl == IF stack = <<>> THEN 0 ELSE Top.lvl

Pc == IF stack = <<>> THEN "done" ELSE Top.pc

RECURSIVE Pow(_, _)
Pow(b, e) == IF e = 0 THEN 1 ELSE b * Pow(b, e - 1)

---------------------------------------------------------------------------
(* Properties *)

Relaxed(k) == last = [op |-> "RelaxCommit", lvl |-> k]

\* the value relax is to give x[i]: xo[i] + 0.72 * ((r[i] - sum over cols) / diag)
Damped(A, r, xo, i, cols, diag) ==
    VAdd(xo[i], VMul(Omega, VDiv(VSub(r[i], Dot(A, i, xo, cols)), diag)))

\* C1 as stated: after one relax sweep every x[i] is
\* x_old[i] + 0.72 * (temp / diag) with diag = A[i,i] and temp = rhs[i] minus
\* the sum of A[i,j] * x_old[j] over the off-diagonal entries of row i only
\* (stated for the rows that store a diagonal entry).
C1_OffDiagonalSum ==
    \A k \in DOMAIN levels : Relaxed(k) =>
        \A i \in Rows(k) : HasDiagonal(levels[k].A, i) =>
            XOf(levels, x, k)[i] =
                Damped(levels[k].A, RhsOf(levels, rhs, k), xOld, i,
                       Columns(levels[k].A, i) \ {i}, At(levels[k].A, i, i))

\* C1 as amended: after one relax sweep every x[i] is
\* x_old[i] + 0.72 * (temp / diag) where temp = rhs[i] minus the sum of
\* A[i,j] * x_old[j] over ALL stored entries of row i, the diagonal included,
\* and diag is the stored A[i,i], or 1 when row i stores no diagonal entry.
C1_FullRowSum ==
    \A k \in DOMAIN levels : Relaxed(k) =>
        \A i \in Rows(k) :
            XOf(levels, x, k)[i] =
                Damped(levels[k].A, RhsOf(levels, rhs, k), xOld, i,
                       Columns(levels[k].A, i),
                       IF HasDiagonal(levels[k].A, i) THEN At(levels[k].A, i, i) ELSE 1)

\* a sweep has been committed on a row with a diagonal and an off-diagonal
\* entry whose pre-sweep x[i] was not 0
C1_Witness ==
    \E k \in DOMAIN levels : Relaxed(k) /\
        \E i \in Rows(k) : /\ HasDiagonal(levels[k].A, i)
                           /\ Columns(levels[k].A, i) # {i}
                           /\ xOld[i] # 0

\* C2: Jacobi independence.  While a sweep runs x still is the pre-sweep x
\* and every row already computed is staged in t with the value the
\* pre-sweep x gives it; once committed, x holds exactly those values
\* whatever the order of the rows was, t having been swapped with x (same
\* vector type) or copied into it (otherwise).
C2_JacobiIndependence ==
    /\ Pc = "relax" =>
        /\ XOf(levels, x, Lvl) = xOld
        /\ \A r \in rowsDone :
              levels[Lvl].t[r] =
                  RelaxRowValue(levels[Lvl].A, RhsOf(levels, rhs, Lvl), xOld, r)
    /\ \A k \in DOMAIN levels : Relaxed(k) =>
        /\ XOf(levels, x, k) =
              [i \in Rows(k) |-> RelaxRowValue(levels[k].A, RhsOf(levels, rhs, k), xOld, i)]
        /\ levels[k].t = IF SameOf(k) THEN xOld ELSE XOf(levels, x, k)

\* a sweep over three rows that computed the last row first and row 0 not
\* yet, the staged values differing from x
C2_Witness ==
    /\ Pc = "relax" /\ Cardinality(Rows(Lvl)) = 3 /\ rowsDone = {1, 2}
    /\ \E r \in rowsDone : levels[Lvl].t[r] # XOf(levels, x, Lvl)[r]

Did(op, k) == last = [op |-> op, lvl |-> k]

\* C3: terminal-level exactness.  A finished call on a 2-level hierarchy with
\* ncycle = 1, npre = npost = 0 and x = 0 leaves x = P * (Ai * (R * rhs)),
\* which is Ai * rhs when P and R are identity maps; and whenever the last
\* level has been solved, its x is Ai * rhs in every row, whatever x held
\* before and whatever the parameters are.
C3_TerminalExactness ==
    /\ ( /\ Finished /\ Depth = 2
         /\ prm = [ncycle |-> 1, npre |-> 0, npost |-> 0]
         /\ input.x0 = Zeros(levels[1].A.rows) )
       => /\ x = Times(levels[1].P, Times(levels[2].Ai, Times(levels[1].R, rhs)))
          /\ (IsIdentity(levels[1].P) /\ IsIdentity(levels[1].R))
                => x = Times(levels[2].Ai, rhs)
    /\ \A k \in DOMAIN levels : Did("Solve", k) =>
          /\ k = Depth
          /\ XOf(levels, x, k) = Times(levels[k].Ai, RhsOf(levels, rhs, k))

\* the 2-level call through identity transfer operators has finished with a
\* non-zero result
C3_Witness ==
    /\ Finished /\ Depth = 2
    /\ prm = [ncycle |-> 1, npre |-> 0, npost |-> 0]
    /\ input.x0 = Zeros(levels[1].A.rows)
    /\ IsIdentity(levels[1].P) /\ IsIdentity(levels[1].R)
    /\ x # Zeros(levels[1].A.rows)

\* C4: coarse-correction additivity.  Right after the prolongation step of
\* any repetition, x is x as pre-smoothing left it plus P * nxt.u; and every
\* recursive call starts from nxt.u = 0, so that in a later repetition the
\* earlier correction is not applied again.
C4_CorrectionAdditive ==
    \A k \in DOMAIN levels :
        /\ Did("Prolong", k) =>
              XOf(levels, x, k) = Plus(Top.xPre, Times(levels[k].P, levels[Nxt(k)].u))
        /\ (Did("Call", k) /\ k > 1) => levels[k].u = Zeros(levels[k].A.rows)

\* the second repetition of a level has just added a non-zero correction to
\* a non-zero x
C4_Witness ==
    \E k \in DOMAIN levels :
        /\ Did("Prolong", k) /\ Top.j = 1
        /\ Top.xPre # Zeros(levels[k].A.rows)
        /\ XOf(levels, x, k) # Top.xPre

\* C5: visit counts.  When the outer call has returned, level k was entered
\* ncycle^(k-1) times, the last level was solved ncycle^(d-1) times, and for
\* ncycle = 1 there were d-1 restrictions and d-1 prolongations.
C5_VisitCounts ==
    Finished =>
        /\ \A k \in DOMAIN levels : count.enter[k] = Pow(prm.ncycle, k - 1)
        /\ count.solve = Pow(prm.ncycle, Depth - 1)
        /\ prm.ncycle = 1 => (count.restrict = Depth - 1 /\ count.prolong = Depth - 1)

\* ncycle = 2 on 3 levels: level 2 entered twice, 4 direct solves
C5_Witness ==
    /\ Finished /\ Depth = 3 /\ prm.ncycle = 2
    /\ count.enter[2] = 2 /\ count.solve = 4

\* C6: termination.  Every activation works on the level one below its
\* caller's and inside the sequence, only a level that has a next level runs
\* the interior branch, the last level is reached with exactly one
\* activation per level, and the outer call returns.
C6_ShorterEachCall ==
    /\ \A m \in DOMAIN stack :
          /\ stack[m].lvl = m
          /\ stack[m].lvl < End
          /\ stack[m].pc \notin {"enter", "solve", "ret"} => stack[m].lvl < Depth
    /\ Pc = "solve" => (Lvl = Depth /\ Len(stack) = Depth)

\* C6: the recursion keeps that shape at every step, and the outer call
\* eventually returns.
C6_Termination == []C6_ShorterEachCall /\ <>Finished

\* a call on the deepest hierarchy, with smoothing and two repetitions, has
\* returned
C6_Witness ==
    /\ Finished /\ Depth = MaxDepth /\ prm.ncycle = MaxNcycle
    /\ count.relax > 0

\* C7: fail-fast.  A relax sweep over a matrix one of whose rows has no
\* diagonal entry never completes with numeric values written into x.
C7_FailFast ==
    \A k \in DOMAIN levels :
        MissingDiagonal(levels[k].A) => ~(Relaxed(k) /\ NoPoison(XOf(levels, x, k)))

\* C8: scratch vectors carry no state.  A call that begins with scratch
\* vectors of unknown content (every element Poison, which every operation
\* on it yields again) never stores a value derived from that content: each
\* scratch element stored during the call, and each element of x at any time
\* and so at the return, is free of it.  Hence every scratch element read was
\* stored earlier in the call, and two calls that differ only in the initial
\* scratch contents return the same x.
C8_ScratchStateless ==
    /\ NoPoison(x)
    /\ \A k \in DOMAIN levels :
          /\ \A i \in written[k].u : levels[k].u[i] # Poison
          /\ \A i \in written[k].f : levels[k].f[i] # Poison
          /\ \A i \in written[k].t : levels[k].t[i] # Poison

\* a call that began with left-over scratch content on three levels, with
\* smoothing and two repetitions, has returned
C8_Witness ==
    /\ Finished /\ input.dirty /\ Depth = 3
    /\ prm.ncycle = 2 /\ prm.npre > 0 /\ prm.npost > 0
    /\ x # input.x0

\* C9: frame.  No step writes the driver's rhs or an operator of any level;
\* the rhs of every active activation is unchanged by every step; while an
\* activation waits for its recursive call its x is unchanged; and a step
\* of the activation on level k writes nothing of the levels above k nor
\* (below the finest level) the driver's x.
C9_FrameStep ==
    /\ rhs' = rhs
    /\ \A k \in DOMAIN levels :
          /\ levels'[k].A = levels[k].A /\ levels'[k].P = levels[k].P
          /\ levels'[k].R = levels[k].R /\ levels'[k].Ai = levels[k].Ai
    /\ \A m \in DOMAIN stack :
          /\ RhsOf(levels', rhs', stack[m].lvl) = RhsOf(levels, rhs, stack[m].lvl)
          /\ m < Len(stack) => XOf(levels', x', stack[m].lvl) = XOf(levels, x, stack[m].lvl)
    /\ \A k \in DOMAIN levels : k < Lvl => levels'[k] = levels[k]
    /\ Lvl > 1 => x' = x

\* C9: every step of relax and cycle respects the frame above.
C9_Frame == [][C9_FrameStep]_vars

\* level 2 of three has committed a relax sweep while level 1 waits
C9_Witness ==
    /\ Len(stack) = 2 /\ Depth = 3 /\ Did("RelaxCommit", 2)
    /\ levels[2].u # Zeros(levels[2].A.rows)

RECURSIVE Repeat(_, _)
Repeat(sq, n) == IF n = 0 THEN <<>> ELSE sq \o Repeat(sq, n - 1)

IsPrefix(a, b) == Len(a) <= Len(b) /\ a = SubSeq(b, 1, Len(a))

\* the steps one activation on level k is to perform, in order
ExpectedLog(k) ==
    IF k = Depth THEN <<"solve">>
    ELSE Repeat(Repeat(<<"relax">>, prm.npre)
                \o <<"residual", "restrict", "zero", "cycle", "prolong">>
                \o Repeat(<<"relax">>, prm.npost),
                prm.ncycle)

\* C10: step ordering.  The steps an activation has performed are always an
\* initial part of: ncycle times (npre relax, residual, restriction, zeroing
\* of nxt.u, recursive call, prolongation, npost relax) on an interior level,
\* the direct solve alone on the last level; and all of them when it returns.
C10_StepOrder ==
    \A m \in DOMAIN stack :
        /\ IsPrefix(stack[m].log, ExpectedLog(stack[m].lvl))
        /\ stack[m].pc = "ret" => stack[m].log = ExpectedLog(stack[m].lvl)

\* an interior level below the finest is about to return after two
\* repetitions with smoothing before and after
C10_Witness ==
    /\ Pc = "ret" /\ Lvl = 2 /\ Depth = 3
    /\ prm.ncycle = 2 /\ prm.npre > 0 /\ prm.npost > 0

====
